---- MODULE Spec2Model ----
(***************************************************************************)
(* A model of main.py: the phrase normalizer, the dictionary validity      *)
(* test, the edit-distance-1 neighbor generator and the breadth-first,     *)
(* depth-bounded graph builder.                                            *)
(*                                                                         *)
(* A phrase (a Python str) is a sequence of one-character strings.         *)
(* The dictionary (valid_words) is a set of such sequences.                *)
(***************************************************************************)
EXTENDS Integers, Sequences, FiniteSets, TLC

VARIABLES
    phrase,          \* the phrase argument as passed by the caller (never reassigned)
    valid_words,     \* the dictionary: load_words()'s result / the valid_words parameter
    depth,           \* generate_graph's depth parameter
    pc,              \* where control is
    ret,             \* the value returned by a direct call of a pure function
    start_phrase,    \* generate_graph's start_phrase (reassigned on line 106)
    G,               \* nx.DiGraph: [nodes |-> set of phrases, edges |-> set of pairs]
    queue,           \* deque of <<phrase, depth>>
    visited,         \* dict phrase -> depth
    current_phrase,  \* loop variable of the while loop
    current_depth,   \* loop variable of the while loop
    neighbors,       \* the part of get_neighbors' result the for loop has yet to visit
    expansions,      \* history: phrase -> number of times get_neighbors was computed on it
    enqueues,        \* history: phrase -> number of times it was put into the queue
    cache,           \* the cache files that exist (os.path.exists)
    requests,        \* history: cache file -> number of requests.get calls made for it
    error            \* the cache file whose download raised, "" while none has

\* the history of the traversal
hist == <<expansions, enqueues>>

\* the cache directory and what happened to the downloads
io == <<cache, requests, error>>

vars == <<phrase, valid_words, depth, pc, ret, start_phrase, G, queue, visited,
          current_phrase, current_depth, neighbors, hist, io>>

-----------------------------------------------------------------------------
(* Bounds of the model *)

\* longest phrase argument drawn for a direct call of a pure function
MaxLen == 3
\* longest start phrase drawn for generate_graph
MaxStartLen == 3
\* largest depth argument drawn for generate_graph
MaxDepth == 2
\* largest number of words in a drawn dictionary
MaxDictSize == 2

\* characters the drawn phrases are made of: letters of both cases, the space
\* and one other whitespace character
InputChars == {"a", "b", "A", " ", "\t"}
\* characters the drawn start phrases are made of
StartChars == {"a", "B", " "}
\* words the dictionaries drawn for a direct call are made of
WordUniverse == {<<"a">>, <<"b">>, <<"a", "b">>, <<"b", "a">>}
\* words the dictionaries drawn for generate_graph are made of
GraphWords == {<<"a">>, <<"b">>, <<"a", "b">>}

-----------------------------------------------------------------------------
(* Python's str operations, as far as main.py uses them *)

ascii_lowercase ==
    <<"a", "b", "c", "d", "e", "f", "g", "h", "i", "j", "k", "l", "m",
      "n", "o", "p", "q", "r", "s", "t", "u", "v", "w", "x", "y", "z">>

ascii_uppercase ==
    <<"A", "B", "C", "D", "E", "F", "G", "H", "I", "J", "K", "L", "M",
      "N", "O", "P", "Q", "R", "S", "T", "U", "V", "W", "X", "Y", "Z">>

\* the characters str.split() with no argument splits on (those the model draws)
Whitespace == {" ", "\t"}

Chars ==
    {ascii_lowercase[i] : i \in 1..26} \cup {ascii_uppercase[i] : i \in 1..26}
        \cup Whitespace

\* str.lower() on one character
char_lower ==
    [c \in Chars |->
        IF \E i \in 1..26 : ascii_uppercase[i] = c
        THEN ascii_lowercase[CHOOSE i \in 1..26 : ascii_uppercase[i] = c]
        ELSE c]

\* str.upper() on one character
char_upper ==
    [c \in Chars |->
        IF \E i \in 1..26 : ascii_lowercase[i] = c
        THEN ascii_uppercase[CHOOSE i \in 1..26 : ascii_lowercase[i] = c]
        ELSE c]

\* str.lower()
RECURSIVE str_lower(_)
str_lower(s) ==
    IF s = <<>> THEN <<>> ELSE <<char_lower[Head(s)]>> \o str_lower(Tail(s))

\* str.capitalize(): first character upper-cased, the rest lower-cased
str_capitalize(w) ==
    IF w = <<>> THEN <<>> ELSE <<char_upper[Head(w)]>> \o str_lower(Tail(w))

\* s[:i] + s[i+1:] for a 0-based i; pos is i + 1
str_delete(s, pos) == SubSeq(s, 1, pos - 1) \o SubSeq(s, pos + 1, Len(s))

\* s[:i] + char + s[i+1:] for a 0-based i; pos is i + 1
str_replace_at(s, pos, char) ==
    SubSeq(s, 1, pos - 1) \o <<char>> \o SubSeq(s, pos + 1, Len(s))

\* s[:i] + char + s[i:] for a 0-based i; pos is i + 1
str_insert(s, pos, char) ==
    SubSeq(s, 1, pos - 1) \o <<char>> \o SubSeq(s, pos, Len(s))

\* str.split() with no argument: the maximal runs of non-whitespace characters.
\* stops is the one-element set of the index where the first run of s ends.
RECURSIVE str_split(_)
str_split(s) ==
    IF s = <<>> THEN <<>>
    ELSE IF Head(s) \in Whitespace THEN str_split(Tail(s))
    ELSE LET stops == {k \in 1..Len(s) :
                        /\ \A j \in 1..k : s[j] \notin Whitespace
                        /\ (k = Len(s) \/ s[k + 1] \in Whitespace)}
         IN  CHOOSE parts \in
                {<<SubSeq(s, 1, k)>> \o str_split(SubSeq(s, k + 1, Len(s))) :
                    k \in stops} : TRUE

\* sep.join(parts)
RECURSIVE str_join(_, _)
str_join(sep, parts) ==
    IF parts = <<>> THEN <<>>
    ELSE IF Len(parts) = 1 THEN Head(parts)
    ELSE Head(parts) \o sep \o str_join(sep, Tail(parts))

\* the generator expression w.capitalize() for w in ...
RECURSIVE capitalize_each(_)
capitalize_each(parts) ==
    IF parts = <<>> THEN <<>>
    ELSE <<str_capitalize(Head(parts))>> \o capitalize_each(Tail(parts))

-----------------------------------------------------------------------------
(* main.py's pure functions *)

\* an is_valid_phrase without the test for an empty list of parts
is_valid_phrase_vacuous(p, words) ==
    \E parts \in {str_split(p)} :
        \A i \in 1..Len(parts) : str_lower(parts[i]) \in words

\* parts is bound by a quantifier so that phrase.split() is evaluated once
is_valid_phrase(p, words) ==
    \E parts \in {str_split(p)} :
        /\ parts # <<>>
        /\ \A i \in 1..Len(parts) : str_lower(parts[i]) \in words

\* a normalizer that squeezes runs of spaces with one pass of
\* phrase.replace("  ", " ") and capitalizes after each space, instead of
\* splitting into words and joining them
RECURSIVE replace_double_space(_)
replace_double_space(s) ==
    IF Len(s) < 2 THEN s
    ELSE IF s[1] = " " /\ s[2] = " "
         THEN <<" ">> \o replace_double_space(SubSeq(s, 3, Len(s)))
         ELSE <<s[1]>> \o replace_double_space(Tail(s))

normalize_phrase_replace(p) ==
    LET s == replace_double_space(p)
    IN  [i \in 1..Len(s) |->
            IF i = 1 \/ s[i - 1] \in Whitespace
            THEN char_upper[s[i]] ELSE char_lower[s[i]]]

normalize_phrase(p) == str_join(<<" ">>, capitalize_each(str_split(p)))


\* valid_words membership of a candidate, as each of the three loops tests it
\* before adding normalize_phrase(candidate) to neighbors (lines 70, 83, 90)
valid_normalized(candidates, words) ==
    {normalize_phrase(c) : c \in {x \in candidates : is_valid_phrase(x, words)}}

\* the deletion loop without its validity test
Deletions_unchecked(lower_phrase, words) ==
    {normalize_phrase(str_delete(lower_phrase, i)) : i \in 1..Len(lower_phrase)}

\* the deletion loop over range(len(lower_phrase) - 1)
Deletions_short(lower_phrase, words) ==
    valid_normalized(
        {str_delete(lower_phrase, i) : i \in 1..(Len(lower_phrase) - 1)}, words)

\* 1. Deletions
Deletions(lower_phrase, words) ==
    valid_normalized(
        {str_delete(lower_phrase, i) : i \in 1..Len(lower_phrase)}, words)

\* 2. Substitutions: every position that is not ' ', every other letter
Substitutions(lower_phrase, words) ==
    valid_normalized(
        {str_replace_at(lower_phrase, site[1], ascii_lowercase[site[2]]) :
            site \in {t \in (1..Len(lower_phrase)) \X (1..26) :
                        /\ lower_phrase[t[1]] # " "
                        /\ ascii_lowercase[t[2]] # lower_phrase[t[1]]}},
        words)

\* the insertion loop over range(len(lower_phrase))
Insertions_short(lower_phrase, words) ==
    valid_normalized(
        {str_insert(lower_phrase, site[1], ascii_lowercase[site[2]]) :
            site \in (1..Len(lower_phrase)) \X (1..26)},
        words)

\* an insertion loop whose alphabet also holds the space
Insertions_with_space(lower_phrase, words) ==
    valid_normalized(
        {str_insert(lower_phrase, site[1], char) :
            site \in (1..(Len(lower_phrase) + 1)) \X (1..26),
            char \in {ascii_lowercase[i] : i \in 1..26} \cup {" "}},
        words)

\* 3. Insertions: every position 0..len inclusive, every letter
Insertions(lower_phrase, words) ==
    valid_normalized(
        {str_insert(lower_phrase, site[1], ascii_lowercase[site[2]]) :
            site \in (1..(Len(lower_phrase) + 1)) \X (1..26)},
        words)

\* get_neighbors without the removal of the normalized input
get_neighbors_keep_self(p, words) ==
    LET lower_phrase == str_lower(p)
    IN  Deletions(lower_phrase, words) \cup Substitutions(lower_phrase, words)
            \cup Insertions(lower_phrase, words)

get_neighbors(p, words) ==
    LET lower_phrase == str_lower(p)
        found == Deletions(lower_phrase, words)
                    \cup Substitutions(lower_phrase, words)
                    \cup Insertions(lower_phrase, words)
        normalized_start == normalize_phrase(p)
    IN  found \ {normalized_start}

-----------------------------------------------------------------------------
(* The inputs the model draws *)

RECURSIVE SeqsOfLen(_, _)
SeqsOfLen(S, n) ==
    IF n = 0 THEN {<<>>}
    ELSE {Append(s, c) : s \in SeqsOfLen(S, n - 1), c \in S}

SeqsUpTo(S, n) == UNION {SeqsOfLen(S, k) : k \in 0..n}

\* the dictionaries drawn for a direct call
Dicts == {d \in SUBSET WordUniverse : Cardinality(d) <= MaxDictSize}

\* the dictionaries drawn for generate_graph: none, one or two of GraphWords
GraphDicts == {{}} \cup {{v, w} : v \in GraphWords, w \in GraphWords}

\* the concrete scenario: start "Cat", dictionary {cat, bat, cot, car, at, cats}
ScenarioPhrase == <<"C", "a", "t">>
ScenarioWords ==
    {<<"c", "a", "t">>, <<"b", "a", "t">>, <<"c", "o", "t">>,
     <<"c", "a", "r">>, <<"a", "t">>, <<"c", "a", "t", "s">>}

\* <<phrase, valid_words>> of a direct call of a pure function
CallInputs ==
    (SeqsUpTo(InputChars, MaxLen) \X Dicts)
        \cup {<<ScenarioPhrase, ScenarioWords>>}

\* <<start_phrase, depth>> of a call of generate_graph
GraphInputs ==
    (SeqsUpTo(StartChars, MaxStartLen) \X (-1..MaxDepth))
        \cup {<<ScenarioPhrase, 1>>}

\* the dictionaries drawn for a call generate_graph(p, d)
DictsFor(p, d) ==
    IF p = ScenarioPhrase /\ d = 1 THEN {ScenarioWords} ELSE GraphDicts

EmptyGraph == [nodes |-> {}, edges |-> {}]

\* lines 15-16: the two cache files
WORDS_FILE == ".cache/words.txt"
NAMES_FILE == ".cache/names.txt"

-----------------------------------------------------------------------------
(* Direct calls of the pure functions *)

InitCall ==
    /\ \E input \in CallInputs :
        /\ phrase = input[1]
        /\ valid_words = input[2]
    /\ depth = 0
    /\ pc = "call"
    /\ ret = <<>>
    /\ start_phrase = <<>>
    /\ G = EmptyGraph
    /\ queue = <<>>
    /\ visited = <<>>
    /\ current_phrase = <<>>
    /\ current_depth = 0
    /\ neighbors = {}
    /\ expansions = <<>>
    /\ enqueues = <<>>
    /\ cache = {WORDS_FILE, NAMES_FILE}
    /\ requests = [f \in {WORDS_FILE, NAMES_FILE} |-> 0]
    /\ error = ""

call_normalize_phrase ==
    /\ pc = "call"
    /\ ret' = normalize_phrase(phrase)
    /\ pc' = "normalize_phrase"
    /\ UNCHANGED <<phrase, valid_words, depth, start_phrase, G, queue, visited,
                   current_phrase, current_depth, neighbors, hist, io>>

call_is_valid_phrase ==
    /\ pc = "call"
    /\ ret' = is_valid_phrase(phrase, valid_words)
    /\ pc' = "is_valid_phrase"
    /\ UNCHANGED <<phrase, valid_words, depth, start_phrase, G, queue, visited,
                   current_phrase, current_depth, neighbors, hist, io>>

call_get_neighbors ==
    /\ pc = "call"
    /\ ret' = get_neighbors(phrase, valid_words)
    /\ pc' = "get_neighbors"
    /\ UNCHANGED <<phrase, valid_words, depth, start_phrase, G, queue, visited,
                   current_phrase, current_depth, neighbors, hist, io>>

NextCall == call_normalize_phrase \/ call_is_valid_phrase \/ call_get_neighbors

SpecCall == InitCall /\ [][NextCall]_vars

-----------------------------------------------------------------------------
(* generate_graph *)

Init ==
    /\ pc = "main"
    /\ phrase = <<>>
    /\ valid_words = {}
    /\ depth = 0
    /\ ret = <<>>
    /\ start_phrase = <<>>
    /\ G = EmptyGraph
    /\ queue = <<>>
    /\ visited = <<>>
    /\ current_phrase = <<>>
    /\ current_depth = 0
    /\ neighbors = {}
    /\ expansions = <<>>
    /\ enqueues = <<>>
    /\ cache = {WORDS_FILE, NAMES_FILE}
    /\ requests = [f \in {WORDS_FILE, NAMES_FILE} |-> 0]
    /\ error = ""

\* lines 137-144: the command line gives the phrase and the depth, and
\* generate_graph is called with them
main ==
    /\ pc = "main"
    /\ \E input \in GraphInputs :
        /\ phrase' = input[1]
        /\ start_phrase' = input[1]
        /\ depth' = input[2]
    /\ pc' = "load_words"
    /\ UNCHANGED <<valid_words, ret, G, queue, visited, current_phrase,
                   current_depth, neighbors, hist, io>>

\* line 102: valid_words = load_words() when both cache files exist: the two
\* download_file calls return on line 20 and valid_words is the lowercased
\* lines of the two files
load_words ==
    /\ pc = "load_words"
    /\ WORDS_FILE \in cache
    /\ NAMES_FILE \in cache
    /\ valid_words' \in DictsFor(phrase, depth)
    /\ pc' = "generate_graph"
    /\ UNCHANGED <<phrase, depth, ret, start_phrase, G, queue, visited,
                   current_phrase, current_depth, neighbors, hist, io>>

\* G.add_node(n)
add_node(g, n) == [g EXCEPT !.nodes = @ \cup {n}]

\* G.add_edge(u, v): networkx adds the endpoints that are not yet nodes
add_edge(g, u, v) ==
    [nodes |-> g.nodes \cup {u, v}, edges |-> g.edges \cup {<<u, v>>}]

\* a set-up that gives up on a start phrase that is not dictionary-valid
Setup_abort ==
    /\ pc = "generate_graph"
    /\ start_phrase' = normalize_phrase(start_phrase)
    /\ IF is_valid_phrase(start_phrase', valid_words)
       THEN /\ G' = add_node(EmptyGraph, start_phrase')
            /\ queue' = <<<<start_phrase', 0>>>>
            /\ visited' = (start_phrase' :> 0)
            /\ enqueues' = (start_phrase' :> 1)
            /\ pc' = "while"
       ELSE /\ G' = EmptyGraph
            /\ pc' = "done"
            /\ UNCHANGED <<queue, visited, enqueues>>
    /\ UNCHANGED <<phrase, valid_words, depth, ret, current_phrase,
                   current_depth, neighbors, expansions, io>>

\* a set-up that seeds the traversal with the start phrase as it was given
Setup_raw ==
    /\ pc = "generate_graph"
    /\ start_phrase' = start_phrase
    /\ G' = add_node(EmptyGraph, start_phrase')
    /\ queue' = <<<<start_phrase', 0>>>>
    /\ visited' = (start_phrase' :> 0)
    /\ enqueues' = (start_phrase' :> 1)
    /\ pc' = "while"
    /\ UNCHANGED <<phrase, valid_words, depth, ret, current_phrase,
                   current_depth, neighbors, expansions, io>>

\* lines 105-115: normalize the start phrase, seed the graph, queue and visited
Setup ==
    /\ pc = "generate_graph"
    /\ start_phrase' = normalize_phrase(start_phrase)
    /\ G' = add_node(EmptyGraph, start_phrase')
    /\ queue' = <<<<start_phrase', 0>>>>
    /\ visited' = (start_phrase' :> 0)
    /\ enqueues' = (start_phrase' :> 1)
    /\ pc' = "while"
    /\ UNCHANGED <<phrase, valid_words, depth, ret, current_phrase,
                   current_depth, neighbors, expansions, io>>

\* one more occurrence of x in the history counts
count_one(counts, x) ==
    IF x \in DOMAIN counts THEN [counts EXCEPT ![x] = @ + 1]
    ELSE counts @@ (x :> 1)

\* a popleft that reads the head and leaves it in the queue
popleft_peek(q) == q

\* what queue.popleft() leaves in the queue
popleft(q) == Tail(q)

\* the test written current_depth > depth
depth_reached_strict(d, bound) == d > bound

\* line 122: if current_depth >= depth: continue
depth_reached(d, bound) == d >= bound

\* lines 119-125: one turn of the while loop up to the start of the for loop
Dequeue ==
    /\ pc = "while"
    /\ queue # <<>>
    /\ current_phrase' = Head(queue)[1]
    /\ current_depth' = Head(queue)[2]
    /\ queue' = popleft(queue)
    /\ IF depth_reached(current_depth', depth)
       THEN /\ neighbors' = {}
            /\ pc' = "while"
            /\ UNCHANGED expansions
       ELSE /\ neighbors' = get_neighbors(current_phrase', valid_words)
            /\ expansions' = count_one(expansions, current_phrase')
            /\ pc' = IF neighbors' = {} THEN "while" ELSE "for"
    /\ UNCHANGED <<phrase, valid_words, depth, ret, start_phrase, G, visited,
                   enqueues, io>>

\* an appendleft in place of the append
append_left(q, item) == <<item>> \o q

\* line 129: queue.append(item)
append(q, item) == Append(q, item)

\* an elif that is never taken
same_layer_never(seen, neighbor, d) == FALSE

\* an elif that is a plain else
same_layer_any(seen, neighbor, d) == TRUE

\* line 131: elif visited[neighbor] == current_depth + 1
same_layer(seen, neighbor, d) == seen[neighbor] = d + 1

\* a for loop body whose elif branch also appends the neighbor to the queue
ForNeighbor_requeue ==
    /\ pc = "for"
    /\ \E neighbor \in neighbors :
        /\ IF neighbor \notin DOMAIN visited
           THEN /\ visited' = visited @@ (neighbor :> current_depth + 1)
                /\ queue' = append(queue, <<neighbor, current_depth + 1>>)
                /\ enqueues' = count_one(enqueues, neighbor)
                /\ G' = add_edge(G, current_phrase, neighbor)
           ELSE IF same_layer(visited, neighbor, current_depth)
           THEN /\ G' = add_edge(G, current_phrase, neighbor)
                /\ queue' = append(queue, <<neighbor, current_depth + 1>>)
                /\ enqueues' = count_one(enqueues, neighbor)
                /\ UNCHANGED visited
           ELSE UNCHANGED <<G, visited, queue, enqueues>>
        /\ neighbors' = neighbors \ {neighbor}
    /\ pc' = IF neighbors' = {} THEN "while" ELSE "for"
    /\ UNCHANGED <<phrase, valid_words, depth, ret, start_phrase,
                   current_phrase, current_depth, expansions, io>>

\* a for loop body without the visited test: every neighbor is given the
\* depth current_depth + 1 and appended to the queue
ForNeighbor_relabel ==
    /\ pc = "for"
    /\ \E neighbor \in neighbors :
        /\ visited' = (neighbor :> current_depth + 1) @@ visited
        /\ queue' = append(queue, <<neighbor, current_depth + 1>>)
        /\ enqueues' = count_one(enqueues, neighbor)
        /\ G' = add_edge(G, current_phrase, neighbor)
        /\ neighbors' = neighbors \ {neighbor}
    /\ pc' = IF neighbors' = {} THEN "while" ELSE "for"
    /\ UNCHANGED <<phrase, valid_words, depth, ret, start_phrase,
                   current_phrase, current_depth, expansions, io>>

\* lines 126-132: the body of the for loop for one neighbor; a Python set is
\* iterated in an order the program does not control
ForNeighbor ==
    /\ pc = "for"
    /\ \E neighbor \in neighbors :
        /\ IF neighbor \notin DOMAIN visited
           THEN /\ visited' = visited @@ (neighbor :> current_depth + 1)
                /\ queue' = append(queue, <<neighbor, current_depth + 1>>)
                /\ enqueues' = count_one(enqueues, neighbor)
                /\ G' = add_edge(G, current_phrase, neighbor)
           ELSE IF same_layer(visited, neighbor, current_depth)
           THEN /\ G' = add_edge(G, current_phrase, neighbor)
                /\ UNCHANGED <<visited, queue, enqueues>>
           ELSE UNCHANGED <<G, visited, queue, enqueues>>
        /\ neighbors' = neighbors \ {neighbor}
    /\ pc' = IF neighbors' = {} THEN "while" ELSE "for"
    /\ UNCHANGED <<phrase, valid_words, depth, ret, start_phrase,
                   current_phrase, current_depth, expansions, io>>

\* lines 119 and 134: the queue is empty, return G
Return ==
    /\ pc = "while"
    /\ queue = <<>>
    /\ ret' = G
    /\ pc' = "done"
    /\ UNCHANGED <<phrase, valid_words, depth, start_phrase, G, queue, visited,
                   current_phrase, current_depth, neighbors, hist, io>>

Next == main \/ load_words \/ Setup \/ Dequeue \/ ForNeighbor \/ Return

Spec == Init /\ [][Next]_vars

\* the interpreter keeps running the single thread until it returns
FairSpec == Spec /\ WF_vars(Next)

-----------------------------------------------------------------------------
(* generate_graph with every neighbor set iterated in one fixed order *)

\* lines 126-132: the for loop over the neighbors in rest, for the dequeued
\* entry current; run is the record of G, queue and visited
RECURSIVE for_in_order(_, _, _)
for_in_order(run, rest, current) ==
    IF rest = {} THEN run
    ELSE LET neighbor == CHOOSE x \in rest : TRUE
             after ==
                IF neighbor \notin DOMAIN run.visited
                THEN [G |-> add_edge(run.G, current[1], neighbor),
                      queue |-> append(run.queue, <<neighbor, current[2] + 1>>),
                      visited |-> run.visited @@ (neighbor :> current[2] + 1)]
                ELSE IF same_layer(run.visited, neighbor, current[2])
                THEN [run EXCEPT !.G = add_edge(run.G, current[1], neighbor)]
                ELSE run
         IN  for_in_order(after, rest \ {neighbor}, current)

\* lines 119-132: the while loop
RECURSIVE while_in_order(_, _, _)
while_in_order(run, words, bound) ==
    IF run.queue = <<>> THEN run
    ELSE LET current == Head(run.queue)
             popped == [run EXCEPT !.queue = popleft(run.queue)]
         IN  IF depth_reached(current[2], bound)
             THEN while_in_order(popped, words, bound)
             ELSE while_in_order(
                    for_in_order(popped, get_neighbors(current[1], words),
                                 current),
                    words, bound)

\* lines 105-134: generate_graph(start, bound) over the dictionary words
generate_graph_in_order(start, words, bound) ==
    LET s == normalize_phrase(start)
    IN  while_in_order([G |-> add_node(EmptyGraph, s),
                        queue |-> <<<<s, 0>>>>,
                        visited |-> (s :> 0)], words, bound)

-----------------------------------------------------------------------------

(* The program with load_words taken step by step, from any state of the
   cache directory *)

\* <<start_phrase, depth>> of the runs that start from any cache directory
LoadInputs ==
    {<<ScenarioPhrase, 1>>, <<<<"a", " ", "B">>, MaxDepth>>, <<<<>>, 0>>}

InitLoad ==
    /\ pc = "main"
    /\ phrase = <<>>
    /\ valid_words = {}
    /\ depth = 0
    /\ ret = <<>>
    /\ start_phrase = <<>>
    /\ G = EmptyGraph
    /\ queue = <<>>
    /\ visited = <<>>
    /\ current_phrase = <<>>
    /\ current_depth = 0
    /\ neighbors = {}
    /\ expansions = <<>>
    /\ enqueues = <<>>
    /\ cache \in SUBSET {WORDS_FILE, NAMES_FILE}
    /\ requests = [f \in {WORDS_FILE, NAMES_FILE} |-> 0]
    /\ error = ""

\* lines 137-144, as main
main_load ==
    /\ pc = "main"
    /\ \E input \in LoadInputs :
        /\ phrase' = input[1]
        /\ start_phrase' = input[1]
        /\ depth' = input[2]
    /\ pc' = "load_words"
    /\ UNCHANGED <<valid_words, ret, G, queue, visited, current_phrase,
                   current_depth, neighbors, hist, io>>

\* lines 19-20: the file exists and download_file returns
file_exists(dest, here, next) ==
    /\ pc = here
    /\ dest \in cache
    /\ pc' = next
    /\ UNCHANGED <<phrase, valid_words, depth, ret, start_phrase, G, queue,
                   visited, current_phrase, current_depth, neighbors, hist,
                   io>>

\* lines 23-26: the request is answered and its text is written to dest
fetch_written(dest, here, next) ==
    /\ pc = here
    /\ requests' = [requests EXCEPT ![dest] = @ + 1]
    /\ cache' = cache \cup {dest}
    /\ pc' = next
    /\ UNCHANGED <<phrase, valid_words, depth, ret, start_phrase, G, queue,
                   visited, current_phrase, current_depth, neighbors, hist,
                   error>>

\* lines 23-24: requests.get or raise_for_status raises; nothing catches the
\* exception and the program ends
fetch_raises(dest, here) ==
    /\ pc = here
    /\ requests' = [requests EXCEPT ![dest] = @ + 1]
    /\ error' = dest
    /\ pc' = "raised"
    /\ UNCHANGED <<phrase, valid_words, depth, ret, start_phrase, G, queue,
                   visited, current_phrase, current_depth, neighbors, hist,
                   cache>>

\* a download_file without the os.path.exists test
download_file_always(dest, here, next) ==
    \/ fetch_written(dest, here, next)
    \/ fetch_raises(dest, here)

\* lines 18-26: download_file(url, dest)
download_file(dest, here, next) ==
    \/ file_exists(dest, here, next)
    \/ dest \notin cache /\ fetch_written(dest, here, next)
    \/ dest \notin cache /\ fetch_raises(dest, here)

\* line 29: download_file(WORDS_URL, WORDS_FILE)
download_words == download_file(WORDS_FILE, "load_words", "download_names")

\* line 30: download_file(NAMES_URL, NAMES_FILE)
download_names == download_file(NAMES_FILE, "download_names", "read_words")

\* lines 32-42: valid_words is the lowercased lines of the two files
read_words ==
    /\ pc = "read_words"
    /\ valid_words' \in DictsFor(phrase, depth)
    /\ pc' = "generate_graph"
    /\ UNCHANGED <<phrase, depth, ret, start_phrase, G, queue, visited,
                   current_phrase, current_depth, neighbors, hist, io>>

NextLoad ==
    \/ main_load
    \/ download_words
    \/ download_names
    \/ read_words
    \/ Setup
    \/ Dequeue
    \/ ForNeighbor
    \/ Return

SpecLoad == InitLoad /\ [][NextLoad]_vars

-----------------------------------------------------------------------------

(* Both at once: the functions called on their own, and the whole program *)

InitAll == InitCall \/ Init

NextAll == NextCall \/ Next

SpecAll == InitAll /\ [][NextAll]_vars

-----------------------------------------------------------------------------

(* Vocabulary of the properties *)

\* t is s with exactly one character removed
IsDeletion(s, t) ==
    /\ Len(t) = Len(s) - 1
    /\ \E i \in 1..Len(s) : t = str_delete(s, i)

\* t is s with exactly one character changed into another
IsSubstitution(s, t) ==
    /\ Len(t) = Len(s)
    /\ \E i \in 1..Len(s) :
        /\ t[i] # s[i]
        /\ \A j \in 1..Len(s) : j # i => t[j] = s[j]

\* edit distance exactly 1: one insertion, deletion or substitution
IsEdit1(s, t) == IsDeletion(s, t) \/ IsDeletion(t, s) \/ IsSubstitution(s, t)

LowercaseLetters == {ascii_lowercase[i] : i \in 1..26}

\* t is s with one lowercase letter inserted
IsLetterInsertion(s, t) ==
    /\ Len(t) = Len(s) + 1
    /\ \E i \in 1..Len(t) : t[i] \in LowercaseLetters /\ s = str_delete(t, i)

\* t is s with one character other than ' ' changed into a lowercase letter
IsLetterSubstitution(s, t) ==
    /\ Len(t) = Len(s)
    /\ \E i \in 1..Len(s) :
        /\ s[i] # " "
        /\ t[i] # s[i]
        /\ t[i] \in LowercaseLetters
        /\ \A j \in 1..Len(s) : j # i => t[j] = s[j]

\* the characters of the dictionary's words
LettersOf(words) == UNION {{w[i] : i \in 1..Len(w)} : w \in words}

\* every string at edit distance exactly 1 from s over the characters of cs
Edits1(s, cs) ==
    {str_delete(s, i) : i \in 1..Len(s)}
        \cup {str_insert(s, i, c) : i \in 1..(Len(s) + 1), c \in cs}
        \cup {t \in {str_replace_at(s, i, c) : i \in 1..Len(s), c \in cs} : t # s}

\* the canonical phrases that can be dictionary-valid under words and lie at
\* edit distance 1 from the lowercase form of p: phrases made of the
\* dictionary's characters and the space
CanonicalEdits1(p, words) ==
    {q \in {normalize_phrase(c) :
                c \in Edits1(str_lower(p), LettersOf(words) \cup {" "})} :
        IsEdit1(str_lower(p), str_lower(q))}

-----------------------------------------------------------------------------
(* Properties *)

\* C1: in every state of generate_graph, during and after the traversal,
\* every edge (u, v) of the graph has depth(v) = depth(u) + 1 in visited.
C1_Layering ==
    \A e \in G.edges :
        /\ e[1] \in DOMAIN visited
        /\ e[2] \in DOMAIN visited
        /\ visited[e[2]] = visited[e[1]] + 1

\* C1 witness: in the middle of a for loop, a node of depth 2 has edges from
\* two different parents (both branches of lines 127-132 have added an edge).
C1_Witness ==
    /\ pc = "for"
    /\ \E e1 \in G.edges, e2 \in G.edges :
        /\ e1[2] = e2[2]
        /\ e1[1] # e2[1]
        /\ visited[e1[2]] = 2

\* C2: the while loop of generate_graph eventually finds the queue empty and
\* returns the (finite) graph.
C2_Terminates ==
    <>(/\ pc = "done"
       /\ queue = <<>>
       /\ ret = G
       /\ IsFiniteSet(ret.nodes)
       /\ IsFiniteSet(ret.edges))

\* C2 witness: a traversal that expanded nodes down to depth 2 has returned.
C2_Witness ==
    /\ pc = "done"
    /\ depth >= 2
    /\ \E n \in DOMAIN visited : visited[n] = 2

\* C3: every neighbor computed for a phrase is at edit distance exactly 1
\* from that phrase, both in lowercase form. Stated of the phrases
\* generate_graph expands: neighbors is (what is left of) the result of
\* get_neighbors(current_phrase, valid_words).
C3_EditDistanceOne ==
    pc = "for" =>
        \A q \in neighbors :
            IsEdit1(str_lower(current_phrase), str_lower(q))

\* C4 as stated: every dictionary-valid canonical phrase q other than
\* normalize_phrase(p) whose lowercase form is one insertion, deletion or
\* substitution away from the lowercase form of p is in get_neighbors(p, D).
C4_FullCoverage ==
    pc = "get_neighbors" =>
        \A q \in CanonicalEdits1(phrase, valid_words) :
            (/\ normalize_phrase(q) = q
             /\ is_valid_phrase(q, valid_words)
             /\ q # normalize_phrase(phrase)
             /\ IsEdit1(str_lower(phrase), str_lower(q)))
                => q \in ret

\* C4 amended: every dictionary-valid canonical phrase q other than
\* normalize_phrase(p) whose lowercase form comes from the lowercase form of
\* p by deleting one character, by inserting one lowercase letter, or by
\* changing one character other than ' ' into a lowercase letter, is in
\* get_neighbors(p, D).
C4_LetterCoverage ==
    pc = "get_neighbors" =>
        \A q \in CanonicalEdits1(phrase, valid_words) :
            (/\ normalize_phrase(q) = q
             /\ is_valid_phrase(q, valid_words)
             /\ q # normalize_phrase(phrase)
             /\ \/ IsDeletion(str_lower(phrase), str_lower(q))
                \/ IsLetterInsertion(str_lower(phrase), str_lower(q))
                \/ IsLetterSubstitution(str_lower(phrase), str_lower(q)))
                => q \in ret

\* C4 witness: get_neighbors returned, for one phrase, a neighbor by
\* deletion, one by insertion and one by substitution.
C4_Witness ==
    /\ pc = "get_neighbors"
    /\ \E q \in ret : IsDeletion(str_lower(phrase), str_lower(q))
    /\ \E q \in ret : IsLetterInsertion(str_lower(phrase), str_lower(q))
    /\ \E q \in ret : IsLetterSubstitution(str_lower(phrase), str_lower(q))

\* C5: normalize_phrase(p) is never an element of get_neighbors(p, D), also
\* when p is not in canonical form.
C5_NoSelfLoop ==
    pc = "get_neighbors" => normalize_phrase(phrase) \notin ret

\* C5 witness: p is not canonical and one of its deletion candidates is
\* valid and normalizes to normalize_phrase(p), so the guard of lines 94-96
\* had something to remove.
C5_Witness ==
    /\ pc = "get_neighbors"
    /\ phrase # normalize_phrase(phrase)
    /\ \E i \in 1..Len(phrase) :
        /\ is_valid_phrase(str_delete(str_lower(phrase), i), valid_words)
        /\ normalize_phrase(str_delete(str_lower(phrase), i))
                = normalize_phrase(phrase)

\* C6: every element q of get_neighbors(p, D) satisfies is_valid_phrase(q, D):
\* q has at least one token and every token of q, lowercased, is in D.
C6_ValidityClosure ==
    pc = "get_neighbors" =>
        \A q \in ret :
            /\ is_valid_phrase(q, valid_words)
            /\ Len(str_split(q)) >= 1
            /\ \A i \in 1..Len(str_split(q)) :
                    str_lower(str_split(q)[i]) \in valid_words

\* C6 witness: get_neighbors returned something while one of the deletion
\* candidates was not dictionary-valid.
C6_Witness ==
    /\ pc = "get_neighbors"
    /\ ret # {}
    /\ \E i \in 1..Len(phrase) :
        ~is_valid_phrase(str_delete(str_lower(phrase), i), valid_words)

\* C7: generate_graph(p, 0) returns exactly one node, normalize_phrase(p),
\* and no edge, whatever the dictionary and the neighbors of p.
C7_DepthZero ==
    (pc = "done" /\ depth = 0) =>
        /\ ret.nodes = {normalize_phrase(phrase)}
        /\ ret.edges = {}

\* C7 witness: generate_graph returned for depth 0 although the start
\* phrase has neighbors.
C7_Witness ==
    /\ pc = "done"
    /\ depth = 0
    /\ get_neighbors(normalize_phrase(phrase), valid_words) # {}

\* C8: when the start phrase has a token that is not in the dictionary,
\* generate_graph still makes normalize_phrase(start) a node of depth 0,
\* expands it like any other node (with depth >= 1 every neighbor of it gets
\* an edge from it), and every other node of the final graph is valid.
C8_InvalidStart ==
    ~is_valid_phrase(normalize_phrase(phrase), valid_words) =>
        /\ pc \in {"while", "for", "done"} =>
            /\ start_phrase = normalize_phrase(phrase)
            /\ start_phrase \in G.nodes
            /\ start_phrase \in DOMAIN visited
            /\ visited[start_phrase] = 0
        /\ pc = "done" =>
            /\ \A n \in ret.nodes \ {start_phrase} :
                    is_valid_phrase(n, valid_words)
            /\ depth >= 1 =>
                \A n \in get_neighbors(start_phrase, valid_words) :
                    n \in ret.nodes /\ <<start_phrase, n>> \in ret.edges

\* C8 witness: a traversal from a start phrase that is not dictionary-valid
\* has returned a graph with more nodes than the start.
C8_Witness ==
    /\ pc = "done"
    /\ ~is_valid_phrase(start_phrase, valid_words)
    /\ str_split(start_phrase) # <<>>
    /\ Cardinality(ret.nodes) > 1

\* the five expected neighbors of "Cat" in the scenario
ScenarioNeighbors ==
    {<<"A", "t">>, <<"B", "a", "t">>, <<"C", "o", "t">>, <<"C", "a", "r">>,
     <<"C", "a", "t", "s">>}

\* C9: with D = {cat, bat, cot, car, at, cats}, get_neighbors("Cat", D) is
\* exactly {At, Bat, Cot, Car, Cats} and generate_graph("Cat", 1) returns
\* exactly those five and Cat as nodes and the five edges from Cat.
C9_Scenario ==
    (/\ pc = "done"
     /\ phrase = ScenarioPhrase
     /\ valid_words = ScenarioWords
     /\ depth = 1) =>
        /\ get_neighbors(phrase, valid_words) = ScenarioNeighbors
        /\ ret.nodes = ScenarioNeighbors \cup {ScenarioPhrase}
        /\ Cardinality(ret.nodes) = 6
        /\ ret.edges = {<<ScenarioPhrase, n>> : n \in ScenarioNeighbors}
        /\ Cardinality(ret.edges) = 5

\* C9 witness: generate_graph("Cat", 1) has returned in the scenario.
C9_Witness ==
    /\ pc = "done"
    /\ phrase = ScenarioPhrase
    /\ valid_words = ScenarioWords
    /\ depth = 1
    /\ ret.edges # {}

\* C10: normalize_phrase(normalize_phrase(p)) = normalize_phrase(p).
C10_Idempotent ==
    pc = "normalize_phrase" => normalize_phrase(ret) = ret

\* C10 witness: normalize_phrase was applied to a phrase with a leading
\* space and an upper-case letter inside a word, and changed both.
C10_Witness ==
    /\ pc = "normalize_phrase"
    /\ Len(phrase) >= 3
    /\ phrase[1] = " "
    /\ phrase[3] = "A"
    /\ ret = <<"A", "a">>

\* ---------------------------------------------------------------------------
\* C11: no phrase is expanded (get_neighbors computed on it) more than once
\* and no phrase is put into the queue more than once; a step that adds an
\* edge to a neighbor already in the depth map leaves the queue as it was.
C11_ExpandOnce ==
    /\ [](/\ \A p \in DOMAIN expansions : expansions[p] <= 1
          /\ \A p \in DOMAIN enqueues : enqueues[p] <= 1)
    /\ [][\A e \in G'.edges \ G.edges :
            e[2] \in DOMAIN visited => queue' = queue /\ enqueues' = enqueues]_vars

\* a finished traversal that expanded several phrases and in which some phrase
\* has two incoming edges, the second of them added by the elif branch
C11_Witness ==
    /\ pc = "done"
    /\ Cardinality(DOMAIN expansions) >= 3
    /\ \E e \in G.edges : \E f \in G.edges : e[2] = f[2] /\ e[1] # f[1]

\* ---------------------------------------------------------------------------
\* the phrases that a chain of at most k get_neighbors steps reaches from s
RECURSIVE ReachWithin(_, _, _)
ReachWithin(s, words, k) ==
    IF k <= 0 THEN {s}
    ELSE LET prev == ReachWithin(s, words, k - 1)
         IN  prev \cup UNION {get_neighbors(p, words) : p \in prev}

\* the least number of get_neighbors steps that reaches n from s, for an n
\* that at most bound steps reach
HopCount(s, words, n, bound) ==
    CHOOSE k \in 0..bound :
        /\ n \in ReachWithin(s, words, k)
        /\ \A j \in 0..(k - 1) : n \notin ReachWithin(s, words, j)

\* C12: when generate_graph(start, depth) returns with depth >= 0, a phrase is
\* a node exactly when a chain of at most depth get_neighbors steps reaches it
\* from normalize_phrase(start), and its recorded depth is the least number of
\* such steps.
C12_ShortestHops ==
    (pc = "done" /\ depth >= 0) =>
        /\ G.nodes = ReachWithin(normalize_phrase(phrase), valid_words, depth)
        /\ DOMAIN visited = G.nodes
        /\ \A n \in G.nodes :
             visited[n] = HopCount(normalize_phrase(phrase), valid_words, n, depth)

\* a finished traversal with a node as deep as the depth bound and a node
\* that two chains of different lengths reach, where one more step would have
\* reached a phrase that is not a node
C12_Witness ==
    /\ pc = "done"
    /\ depth >= 1
    /\ \E n \in G.nodes : visited[n] = depth
    /\ \E n \in G.nodes : \E m \in G.nodes :
          /\ visited[m] >= visited[n]
          /\ n \in get_neighbors(m, valid_words)
    /\ ReachWithin(normalize_phrase(phrase), valid_words, depth + 1) # G.nodes

\* ---------------------------------------------------------------------------
\* C13: when generate_graph returns, the edges are exactly the pairs (u, v)
\* where u is a node of recorded depth d below the depth bound, v is in
\* get_neighbors(u) and the recorded depth of v is d + 1; a neighbor of
\* recorded depth d or less gets no edge from u.
C13_EdgeSet ==
    pc = "done" =>
        G.edges = {e \in G.nodes \X G.nodes :
                     /\ visited[e[1]] < depth
                     /\ e[2] \in get_neighbors(e[1], valid_words)
                     /\ visited[e[2]] = visited[e[1]] + 1}

\* a finished traversal with an edge, in which an expanded node has a neighbor
\* that is no deeper than itself
C13_Witness ==
    /\ pc = "done"
    /\ G.edges # {}
    /\ \E u \in G.nodes :
         /\ visited[u] < depth
         /\ \E v \in get_neighbors(u, valid_words) : visited[v] <= visited[u]

\* ---------------------------------------------------------------------------
\* C14: the state of a traversal only grows: no step removes a node, an edge
\* or an entry of the depth map, and no step changes a recorded depth.
C14_OnlyGrows ==
    [][/\ G.nodes \subseteq G'.nodes
       /\ G.edges \subseteq G'.edges
       /\ DOMAIN visited \subseteq DOMAIN visited'
       /\ \A n \in DOMAIN visited : visited'[n] = visited[n]]_vars

\* the for loop is about to meet a neighbor that already has a recorded depth
\* other than current_depth + 1, with edges in the graph
C14_Witness ==
    /\ pc = "for"
    /\ G.edges # {}
    /\ \E neighbor \in neighbors :
         /\ neighbor \in DOMAIN visited
         /\ visited[neighbor] # current_depth + 1

\* ---------------------------------------------------------------------------
\* C15: in every state of a traversal every node is in canonical form
\* (normalize_phrase leaves it as it is, and no two distinct nodes have the
\* same lowercase form), both endpoints of every edge are nodes, and no edge
\* goes from a node to itself.  The edges are a set of (source, target) pairs,
\* as in a networkx DiGraph, so no pair occurs twice.
C15_GraphWellFormed ==
    /\ \A n \in G.nodes : normalize_phrase(n) = n
    /\ \A n \in G.nodes : \A m \in G.nodes :
         str_lower(n) = str_lower(m) => n = m
    /\ \A e \in G.edges :
         /\ e[1] \in G.nodes
         /\ e[2] \in G.nodes
         /\ e[1] # e[2]

\* a finished traversal from a start phrase that was not given in canonical
\* form, with several nodes and an edge
C15_Witness ==
    /\ pc = "done"
    /\ phrase # normalize_phrase(phrase)
    /\ Cardinality(G.nodes) >= 3
    /\ G.edges # {}

\* ---------------------------------------------------------------------------
\* the number of tokens of a phrase
tokens(p) == Len(str_split(p))

\* the number of positions of s that hold a character of cs
count_chars(s, cs) == Cardinality({i \in 1..Len(s) : s[i] \in cs})

\* the larger of two numbers
max(a, b) == IF a >= b THEN a ELSE b

\* C16 as stated: every element of get_neighbors(p, D) has at most as many
\* tokens as p, and every node of a graph built by generate_graph has at most
\* as many tokens as the start phrase.
C16_TokensNeverGrow ==
    /\ pc = "get_neighbors" => \A q \in ret : tokens(q) <= tokens(phrase)
    /\ pc \in {"while", "for", "done"} =>
         \A n \in G.nodes : tokens(n) <= tokens(phrase)

\* C16 amended: get_neighbors never adds a space character: every element of
\* get_neighbors(p, D) holds at most as many spaces as p holds whitespace
\* characters, and when p is in canonical form it has at most
\* max(1, tokens of p) tokens; every node of a graph built by generate_graph
\* has at most max(1, tokens of the start phrase) tokens.
C16_NoSpaceAdded ==
    /\ pc = "get_neighbors" =>
         \A q \in ret :
            /\ count_chars(q, {" "}) <= count_chars(phrase, Whitespace)
            /\ normalize_phrase(phrase) = phrase =>
                 tokens(q) <= max(1, tokens(phrase))
    /\ pc \in {"while", "for", "done"} =>
         \A n \in G.nodes : tokens(n) <= max(1, tokens(phrase))

\* get_neighbors returned, for a canonical phrase of two tokens, a phrase of
\* two tokens and a phrase of one
C16_Witness ==
    /\ pc = "get_neighbors"
    /\ normalize_phrase(phrase) = phrase
    /\ tokens(phrase) = 2
    /\ \E q \in ret : tokens(q) = 2
    /\ \E q \in ret : tokens(q) = 1

\* ---------------------------------------------------------------------------
\* C17: a phrase that splits into zero tokens is not valid, and a candidate
\* of that kind is dropped: no element of a get_neighbors result is the empty
\* phrase or without tokens, and no node other than the start node, and no
\* target of an edge, is the empty phrase.
C17_EmptyDropped ==
    /\ (pc = "is_valid_phrase" /\ tokens(phrase) = 0) => ret = FALSE
    /\ pc = "get_neighbors" => \A q \in ret : q # <<>> /\ tokens(q) >= 1
    /\ pc \in {"while", "for", "done"} =>
         /\ \A n \in G.nodes \ {normalize_phrase(phrase)} :
              n # <<>> /\ tokens(n) >= 1
         /\ \A e \in G.edges : e[2] # <<>>

\* get_neighbors returned phrases for a phrase of one letter, whose deletion
\* candidate is the empty string
C17_Witness ==
    /\ pc = "get_neighbors"
    /\ Len(phrase) = 1
    /\ phrase[1] \notin Whitespace
    /\ ret # {}

\* ---------------------------------------------------------------------------
\* C18: a dictionary list is fetched at most once in a run and never when its
\* cache file exists; when a fetch fails the program stops there: no cache
\* file exists for the failed list, no further step of any kind follows (no
\* second fetch, no traversal step), and no graph has been or will be built.
C18_FetchFailureAborts ==
    /\ [](/\ \A f \in DOMAIN requests : requests[f] <= 1
          /\ error # "" =>
               /\ pc = "raised"
               /\ error \notin cache
               /\ G = EmptyGraph /\ queue = <<>> /\ visited = <<>>
               /\ ret = <<>> /\ expansions = <<>> /\ enqueues = <<>>
          /\ pc \in {"generate_graph", "while", "for", "done"} =>
               /\ error = ""
               /\ cache = {WORDS_FILE, NAMES_FILE})
    /\ [][/\ error = ""
          /\ \A f \in cache : requests'[f] = requests[f]]_vars

\* the word list was fetched and written, then the fetch of the name list
\* failed
C18_Witness ==
    /\ pc = "raised"
    /\ error = NAMES_FILE
    /\ requests[WORDS_FILE] = 1
    /\ cache = {WORDS_FILE}

\* ---------------------------------------------------------------------------
\* C19: whatever the order in which each neighbor set is iterated, the graph
\* that generate_graph returns and the recorded depths are those of the run
\* that iterates every neighbor set in one fixed order; so every two runs on
\* the same start phrase, dictionary and depth bound return the same nodes,
\* edges and depths.
C19_OrderIndependent ==
    pc = "done" =>
        LET run == generate_graph_in_order(phrase, valid_words, depth)
        IN  /\ ret.nodes = run.G.nodes
            /\ ret.edges = run.G.edges
            /\ visited = run.visited

\* a finished traversal in which the start node had several neighbors, to be
\* queued in any order, and a deeper node has edges from two of them
C19_Witness ==
    /\ pc = "done"
    /\ Cardinality({n \in G.nodes : visited[n] = 1}) >= 2
    /\ \E e \in G.edges : \E f \in G.edges :
         /\ e[2] = f[2]
         /\ e[1] # f[1]
         /\ visited[e[2]] = 2

\* ---------------------------------------------------------------------------
\* C20: in every state the depths of the queued entries do not decrease from
\* head to tail and differ by at most one between head and tail, every queued
\* phrase has in the depth map exactly the depth it is queued with, and no
\* recorded depth is above max(depth bound, 0).
C20_QueueShape ==
    /\ \A i \in 1..Len(queue) : \A j \in i..Len(queue) :
         /\ queue[i][2] <= queue[j][2]
         /\ queue[j][2] <= queue[i][2] + 1
    /\ \A i \in 1..Len(queue) :
         /\ queue[i][1] \in DOMAIN visited
         /\ visited[queue[i][1]] = queue[i][2]
    /\ \A n \in DOMAIN visited : visited[n] <= max(depth, 0)

\* the queue holds entries of two depths, in the middle of a for loop
C20_Witness ==
    /\ pc = "for"
    /\ Len(queue) >= 3
    /\ queue[1][2] = 1
    /\ queue[Len(queue)][2] = 2

====
